---- MODULE Spec2Model ----
(***************************************************************************)
(* A model of the tile-matching game bot in src/main.py: the two-step      *)
(* configuration dialogue (start, choose_dimensions, choose_match_count),  *)
(* board generation (generate_dynamic_items, get_initial_board_state),     *)
(* the tap handler (button_tap) and the high-score table it writes to      *)
(* bot_data.  Text is a sequence of one-character strings; an emoji of     *)
(* EMOJI_POOL is its position in the pool.                                 *)
(***************************************************************************)
EXTENDS Integers, Sequences, FiniteSets, TLC

VARIABLES
    conv_state,   \* the ConversationHandler's state for the chat
    user_data,    \* context.user_data: a dict, here a function on its keys
    bot_data,     \* context.bot_data: score_config_key -> list of scores
    outcome,      \* what the last handler reported (its message / return)
    starts,       \* number of /start commands received so far
    sessions      \* the button_tap coroutines in flight, where they are told
                  \* apart: player (or coroutine) -> its position and locals

vars == <<conv_state, user_data, bot_data, outcome, starts, sessions>>

(***************************************************************************)
(* Program constants.                                                      *)
(***************************************************************************)
CHOOSE_DIMENSIONS == 0
CHOOSE_MATCH_COUNT == 1
\* ConversationHandler.END
END == -1
MAX_HIGH_SCORES_PER_CONFIG == 10
\* len(EMOJI_POOL)
PoolSize == 36
\* the limits of "x_dim > 8 or y_dim > 9"
MaxDimX == 8
MaxDimY == 9
\* the "10" of "len(EMOJI_POOL) * 10"
PoolFactor == 10
\* the "2" of "x_dim * y_dim < 2"
MinCells == 2

(***************************************************************************)
(* Bounds of the model.                                                    *)
(***************************************************************************)
\* /start commands the environment sends in one run
MaxStarts == 1
\* time.time() at the win is at most game_start_time + MaxElapsed
MaxElapsed == 1

EMOJI_POOL == [i \in 1..PoolSize |-> i]

\* the question mark generate_keyboard shows on a hidden cell: no pool symbol
Placeholder == 0

(***************************************************************************)
(* Text: decimal digits, str(int) and int(str).                            *)
(***************************************************************************)
DigitChars == <<"0", "1", "2", "3", "4", "5", "6", "7", "8", "9">>

IsDigit(c) == \E i \in 1..10 : DigitChars[i] = c

DigitVal(c) == (CHOOSE i \in 1..10 : DigitChars[i] = c) - 1

AllDigits(s) == Len(s) >= 1 /\ \A i \in 1..Len(s) : IsDigit(s[i])

RECURSIVE ParseDigits(_)
\* int() of a non-empty string of decimal digits
ParseDigits(s) ==
    IF Len(s) = 0 THEN 0
    ELSE 10 * ParseDigits(SubSeq(s, 1, Len(s) - 1)) + DigitVal(s[Len(s)])

RECURSIVE Str(_)
\* f"{n}" of an integer n >= 0
Str(n) ==
    IF n < 10 THEN <<DigitChars[n + 1]>>
    ELSE Str(n \div 10) \o <<DigitChars[(n % 10) + 1]>>

\* f"{x}_{y}"
CellId(x, y) == Str(x) \o <<"_">> \o Str(y)

\* f"{board_size_x}x{board_size_y}_match{match_count}"
ScoreConfigKey(x, y, m) ==
    Str(x) \o <<"x">> \o Str(y) \o <<"_", "m", "a", "t", "c", "h">> \o Str(m)

(***************************************************************************)
(* Dicts: a dict is a function on the set of its keys.                     *)
(***************************************************************************)
EmptyDict == [k \in {} |-> 0]

Has(d, k) == k \in DOMAIN d

Put(d, k, v) == [x \in (DOMAIN d) \cup {k} |-> IF x = k THEN v ELSE d[x]]

\* dict.get(k, default)
GetOr(d, k, default) == IF k \in DOMAIN d THEN d[k] ELSE default

(***************************************************************************)
(* Board generation.                                                       *)
(***************************************************************************)
\* items before the shuffle: each of the first n emojis, match_count times
UnshuffledItems(n, match_count) ==
    [i \in 1..(n * match_count) |-> EMOJI_POOL[((i - 1) \div match_count) + 1]]

Count(s, v) == Cardinality({i \in 1..Len(s) : s[i] = v})

\* every order random.shuffle can leave the list in
Shuffles(items) ==
    LET vals == {items[i] : i \in 1..Len(items)}
    IN  {s \in [1..Len(items) -> vals] :
            \A v \in vals : Count(s, v) = Count(items, v)}

\* a slip: a single group of items passes the "at least 2 unique sets" check
generate_dynamic_items_one(board_size_x, board_size_y, match_count) ==
    LET total_cells == board_size_x * board_size_y
        num_unique_item_sets == total_cells \div match_count
    IN  IF total_cells % match_count # 0 THEN {}
        ELSE IF num_unique_item_sets < 1 /\ total_cells > 0 THEN {}
        ELSE IF num_unique_item_sets > PoolSize THEN {}
        ELSE Shuffles(UnshuffledItems(num_unique_item_sets, match_count))

\* generate_dynamic_items: the set of lists it can return, {} when it returns None
generate_dynamic_items(board_size_x, board_size_y, match_count) ==
    LET total_cells == board_size_x * board_size_y
        num_unique_item_sets == total_cells \div match_count
    IN  IF total_cells % match_count # 0 THEN {}
        ELSE IF num_unique_item_sets <= 1 /\ total_cells > 0 THEN {}
        ELSE IF num_unique_item_sets > PoolSize THEN {}
        ELSE Shuffles(UnshuffledItems(num_unique_item_sets, match_count))

\* the board get_initial_board_state lays out from a list of items, row by row
BoardOf(items, board_size_x, board_size_y) ==
    LET ids == {CellId(x, y) : x \in 1..board_size_x, y \in 1..board_size_y}
        xy(id) == CHOOSE p \in (1..board_size_x) \X (1..board_size_y) :
                      CellId(p[1], p[2]) = id
        idx(id) == (xy(id)[2] - 1) * board_size_x + xy(id)[1]
    IN  [id \in ids |-> [value |-> items[idx(id)],
                         revealed |-> FALSE,
                         permanently_revealed |-> FALSE]]

\* get_initial_board_state: the set of (game_items, board_cells) it can produce
\* from user_data, {} when it returns None
get_initial_board_state(ud) ==
    IF ~(Has(ud, "board_size_x") /\ Has(ud, "board_size_y") /\ Has(ud, "match_count"))
    THEN {}
    ELSE {[game_items |-> items,
           board_cells |-> BoardOf(items, ud["board_size_x"], ud["board_size_y"])] :
             items \in {it \in generate_dynamic_items(ud["board_size_x"],
                                                      ud["board_size_y"],
                                                      ud["match_count"]) :
                           \* "if idx < len(items)" holds for every cell
                           Len(it) >= ud["board_size_x"] * ud["board_size_y"]}}

(***************************************************************************)
(* The configuration dialogue.                                             *)
(***************************************************************************)
\* the character class [xX×]; "times" stands for the multiplication sign
Separators == {"x", "X", "times"}

\* re.fullmatch(r"(\d+)[xX×](\d+)", s): the positions of the separator
DimensionMatches(s) ==
    {i \in 1..Len(s) : /\ s[i] \in Separators
                       /\ AllDigits(SubSeq(s, 1, i - 1))
                       /\ AllDigits(SubSeq(s, i + 1, Len(s)))}

\* a slip: the "minimum 2 cells" check is left out
DimensionsVerdict_nomin(x_dim, y_dim) ==
    IF x_dim > MaxDimX \/ y_dim > MaxDimY \/ x_dim <= 0 \/ y_dim <= 0
    THEN "InvalidDimensions"
    ELSE IF x_dim * y_dim > PoolSize * PoolFactor THEN "BoardTooLarge"
    ELSE "ok"

\* the checks of choose_dimensions on the parsed dimensions: the diagnostic,
\* "ok" when they are accepted
DimensionsVerdict(x_dim, y_dim) ==
    IF x_dim > MaxDimX \/ y_dim > MaxDimY \/ x_dim <= 0 \/ y_dim <= 0
    THEN "InvalidDimensions"
    ELSE IF x_dim * y_dim < MinCells THEN "BoardTooSmall"
    ELSE IF x_dim * y_dim > PoolSize * PoolFactor THEN "BoardTooLarge"
    ELSE "ok"

\* int(user_input): [ok, val]; an optional sign, then decimal digits
IntOf(s) ==
    IF AllDigits(s) THEN [ok |-> TRUE, val |-> ParseDigits(s)]
    ELSE IF Len(s) >= 2 /\ s[1] = "-" /\ AllDigits(Tail(s))
    THEN [ok |-> TRUE, val |-> 0 - ParseDigits(Tail(s))]
    ELSE IF Len(s) >= 2 /\ s[1] = "+" /\ AllDigits(Tail(s))
    THEN [ok |-> TRUE, val |-> ParseDigits(Tail(s))]
    ELSE [ok |-> FALSE, val |-> 0]

\* a slip: the range check reads "1 <= match_count"
MatchCountVerdict_loose(total_cells, match_count) ==
    IF ~(1 <= match_count /\ match_count <= total_cells) THEN "MatchCountOutOfRange"
    ELSE IF total_cells % match_count # 0 THEN "NotDivisible"
    ELSE IF (total_cells \div match_count) <= 1 /\ total_cells > 1 THEN "TooFewGroups"
    ELSE IF (total_cells \div match_count) > PoolSize THEN "NotEnoughEmojis"
    ELSE "ok"

\* a slip: the "fewer than two groups" check is left out
MatchCountVerdict_nogroups(total_cells, match_count) ==
    IF ~(1 < match_count /\ match_count <= total_cells) THEN "MatchCountOutOfRange"
    ELSE IF total_cells % match_count # 0 THEN "NotDivisible"
    ELSE IF (total_cells \div match_count) > PoolSize THEN "NotEnoughEmojis"
    ELSE "ok"

\* the checks of choose_match_count, in order: the diagnostic, "ok" when accepted
MatchCountVerdict(total_cells, match_count) ==
    IF ~(1 < match_count /\ match_count <= total_cells) THEN "MatchCountOutOfRange"
    ELSE IF total_cells % match_count # 0 THEN "NotDivisible"
    ELSE IF (total_cells \div match_count) <= 1 /\ total_cells > 1 THEN "TooFewGroups"
    ELSE IF (total_cells \div match_count) > PoolSize THEN "NotEnoughEmojis"
    ELSE "ok"

\* the texts the user sends while the dimensions are asked for
DimensionTexts ==
    { <<"2", "X", "3">>, <<"1", "times", "2">>,
      <<"0", "x", "2">>, <<"9", "x", "2">>, <<"2", "x", "1", "0">>,
      <<"1", "x", "1">>, <<"2", "2">>, <<"x", "2">>, <<"2", "x">>,
      <<"a", "x", "2">>, <<"-", "2", "x", "2">> }

\* the same, for the runs that fill the score table: a board of 4 cells
ScoreDimensionTexts ==
    { <<"2", "x", "2">>, <<"4">> }

\* the texts the user sends while the match count is asked for
MatchCountTexts ==
    { <<"2">>, <<"3">>, <<"+", "2">>, <<"1">>, <<"0">>, <<"-", "2">>,
      <<"4">>, <<"6">>, <<"1", "2">>, <<"a">>, <<"2", "x">> }

\* time.time() when a game starts
StartTimes == {1}

\* start: /start is an entry point and a fallback of the conversation
Start ==
    /\ starts < MaxStarts
    /\ starts' = starts + 1
    /\ user_data' = EmptyDict
    /\ conv_state' = CHOOSE_DIMENSIONS
    /\ outcome' = "Welcome"
    /\ UNCHANGED <<bot_data, sessions>>

\* cancel: /cancel is a fallback only, so it is handled inside the dialogue
Cancel ==
    /\ conv_state \in {CHOOSE_DIMENSIONS, CHOOSE_MATCH_COUNT}
    /\ user_data' = EmptyDict
    /\ conv_state' = END
    /\ outcome' = "Cancelled"
    /\ UNCHANGED <<bot_data, starts, sessions>>

\* /cancel outside the dialogue: conv_handler has no state for the chat and
\* tries its entry points only, and no other handler takes the command, so
\* no handler runs
CancelNotHandled ==
    /\ conv_state = END
    /\ outcome' = "CancelNotHandled"
    /\ UNCHANGED <<conv_state, user_data, bot_data, starts, sessions>>

choose_dimensions(user_input) ==
    /\ conv_state = CHOOSE_DIMENSIONS
    /\ UNCHANGED <<bot_data, starts, sessions>>
    /\ IF DimensionMatches(user_input) = {}
       THEN /\ outcome' = "InvalidFormat"
            /\ UNCHANGED <<conv_state, user_data>>
       ELSE LET i == CHOOSE j \in DimensionMatches(user_input) : TRUE
                x_dim == ParseDigits(SubSeq(user_input, 1, i - 1))
                y_dim == ParseDigits(SubSeq(user_input, i + 1, Len(user_input)))
            IN  IF DimensionsVerdict(x_dim, y_dim) # "ok"
                THEN /\ outcome' = DimensionsVerdict(x_dim, y_dim)
                     /\ UNCHANGED <<conv_state, user_data>>
                ELSE /\ user_data' = Put(Put(user_data, "board_size_x", x_dim),
                                         "board_size_y", y_dim)
                     /\ conv_state' = CHOOSE_MATCH_COUNT
                     /\ outcome' = "DimensionsChosen"

choose_match_count(user_input) ==
    /\ conv_state = CHOOSE_MATCH_COUNT
    /\ UNCHANGED <<bot_data, starts, sessions>>
    /\ IF ~(Has(user_data, "board_size_x") /\ Has(user_data, "board_size_y"))
       THEN /\ outcome' = "DimensionsMissing"
            /\ conv_state' = END
            /\ UNCHANGED user_data
       ELSE IF ~IntOf(user_input).ok
       THEN /\ outcome' = "NotAnInteger"
            /\ UNCHANGED <<conv_state, user_data>>
       ELSE LET match_count == IntOf(user_input).val
                total_cells == user_data["board_size_x"] * user_data["board_size_y"]
                verdict == MatchCountVerdict(total_cells, match_count)
                ud == Put(user_data, "match_count", match_count)
                boards == get_initial_board_state(ud)
            IN  IF verdict # "ok"
                THEN /\ outcome' = verdict
                     /\ UNCHANGED <<conv_state, user_data>>
                ELSE IF boards = {}
                THEN /\ outcome' = "BoardFailed"
                     /\ user_data' = ud
                     /\ conv_state' = END
                ELSE \E b \in boards, now \in StartTimes :
                        /\ user_data' =
                             Put(Put(Put(Put(Put(ud,
                                 "game_items", b.game_items),
                                 "board_cells", b.board_cells),
                                 "current_selection", <<>>),
                                 "matched_values", <<>>),
                                 "game_start_time", now)
                        /\ conv_state' = END
                        /\ outcome' = "GameStarted"

(***************************************************************************)
(* The tap handler.                                                        *)
(***************************************************************************)
\* the keys button_tap reads; it reports an expired game when one is missing
SessionKeys ==
    {"board_cells", "current_selection", "matched_values", "match_count",
     "game_items", "game_start_time", "board_size_x", "board_size_y"}

\* the "is None" test of button_tap on what it read from user_data
SessionMissing(ud) == \E k \in SessionKeys : ~Has(ud, k)

\* a slip: a cell already in the current selection is accepted again
TapIgnored_dup(board_cells, current_selection, cell_id) ==
    \/ cell_id \notin DOMAIN board_cells
    \/ board_cells[cell_id].permanently_revealed

\* a slip: a permanently revealed cell is accepted again
TapIgnored_locked(board_cells, current_selection, cell_id) ==
    \/ cell_id \notin DOMAIN board_cells
    \/ \E i \in 1..Len(current_selection) : current_selection[i].id = cell_id

\* a slip: the selection is searched for the value of the cell, not its id
TapIgnored_value(board_cells, current_selection, cell_id) ==
    \/ cell_id \notin DOMAIN board_cells
    \/ board_cells[cell_id].permanently_revealed
    \/ \E i \in 1..Len(current_selection) :
          current_selection[i].value = board_cells[cell_id].value

\* the early returns: an unknown cell, a permanently revealed cell, a cell
\* already in the current selection
TapIgnored(board_cells, current_selection, cell_id) ==
    \/ cell_id \notin DOMAIN board_cells
    \/ board_cells[cell_id].permanently_revealed
    \/ \E i \in 1..Len(current_selection) : current_selection[i].id = cell_id

\* a slip: the selection is resolved one tap late
SelectionComplete_late(current_selection, match_count) ==
    Len(current_selection) > match_count

\* len(current_selection) == match_count
SelectionComplete(current_selection, match_count) ==
    Len(current_selection) = match_count

\* a slip: only the first and the last selected value are compared
IsMatch_ends(current_selection) ==
    current_selection[1].value = current_selection[Len(current_selection)].value

\* len(set(item["value"] for item in current_selection)) == 1
IsMatch(current_selection) ==
    Cardinality({current_selection[i].value : i \in 1..Len(current_selection)}) = 1

SelectedIds(current_selection) ==
    {current_selection[i].id : i \in 1..Len(current_selection)}

\* a slip: the tapped cell is selected but not revealed
Reveal_none(board_cells, cell_id) ==
    [board_cells EXCEPT ![cell_id].revealed = FALSE]

\* tapped_cell_info["revealed"] = True
Reveal(board_cells, cell_id) ==
    [board_cells EXCEPT ![cell_id].revealed = TRUE]

\* the loop of the match branch over current_selection
RevealPermanently(board_cells, current_selection) ==
    [id \in DOMAIN board_cells |->
        IF id \in SelectedIds(current_selection)
        THEN [board_cells[id] EXCEPT !.permanently_revealed = TRUE, !.revealed = TRUE]
        ELSE board_cells[id]]

\* a slip: the cell tapped last stays revealed
Hide_front(board_cells, current_selection) ==
    [id \in DOMAIN board_cells |->
        IF id \in SelectedIds(SubSeq(current_selection, 1, Len(current_selection) - 1))
        THEN [board_cells[id] EXCEPT !.revealed = FALSE]
        ELSE board_cells[id]]

\* a slip: every cell of the board is hidden, the matched ones too
Hide_all(board_cells, current_selection) ==
    [id \in DOMAIN board_cells |-> [board_cells[id] EXCEPT !.revealed = FALSE]]

\* a slip: the hidden cells are rewritten with the first selected value
Hide_value(board_cells, current_selection) ==
    [id \in DOMAIN board_cells |->
        IF id \in SelectedIds(current_selection)
        THEN [board_cells[id] EXCEPT !.revealed = FALSE,
                                     !.value = current_selection[1].value]
        ELSE board_cells[id]]

\* the loop of the mismatch branch over current_selection
Hide(board_cells, current_selection) ==
    [id \in DOMAIN board_cells |->
        IF id \in SelectedIds(current_selection)
        THEN [board_cells[id] EXCEPT !.revealed = FALSE]
        ELSE board_cells[id]]

\* "if matched_value not in matched_values: matched_values.append(matched_value)"
\* a slip: the matched value is recorded only after the round that found it
AddMatched_skip(matched_values, matched_value) ==
    IF matched_values = <<>> THEN matched_values
    ELSE Append(matched_values, matched_value)

AddMatched(matched_values, matched_value) ==
    IF \E i \in 1..Len(matched_values) : matched_values[i] = matched_value
    THEN matched_values
    ELSE Append(matched_values, matched_value)

\* a slip: the items are counted, not the distinct ones
NumUniqueItemTypes_len(game_items) == Len(game_items)

\* len(set(game_items))
NumUniqueItemTypes(game_items) ==
    Cardinality({game_items[i] : i \in 1..Len(game_items)})

\* a slip: the list is left in the order of arrival
SortByTime_unsorted(scores) == scores

RECURSIVE SortByTime_unstable(_)
\* a slip: ascending, but an entry is put before the entries of equal time
SortByTime_unstable(scores) ==
    IF Len(scores) <= 1 THEN scores
    ELSE LET last == scores[Len(scores)]
             front == SortByTime_unstable(SubSeq(scores, 1, Len(scores) - 1))
             n == Cardinality({i \in 1..Len(front) : front[i].time < last.time})
         IN  SubSeq(front, 1, n) \o <<last>> \o SubSeq(front, n + 1, Len(front))

RECURSIVE SortByTime(_)
\* list.sort(key=lambda x: x["time"]): ascending, equal times keep their order
SortByTime(scores) ==
    IF Len(scores) <= 1 THEN scores
    ELSE LET last == scores[Len(scores)]
             front == SortByTime(SubSeq(scores, 1, Len(scores) - 1))
             n == Cardinality({i \in 1..Len(front) : front[i].time <= last.time})
         IN  SubSeq(front, 1, n) \o <<last>> \o SubSeq(front, n + 1, Len(front))

\* high_scores_for_config[:MAX_HIGH_SCORES_PER_CONFIG]
Truncate(scores) ==
    SubSeq(scores, 1, IF Len(scores) < MAX_HIGH_SCORES_PER_CONFIG
                      THEN Len(scores) ELSE MAX_HIGH_SCORES_PER_CONFIG)

\* a slip: the table is rebuilt with this configuration's list alone
RecordScore_alone(bd, score_config_key, user_name, time_taken) ==
    Put(EmptyDict, score_config_key,
        SubSeq(SortByTime(Append(GetOr(bd, score_config_key, <<>>),
                                 [name |-> user_name, time |-> time_taken])),
               1, IF Len(GetOr(bd, score_config_key, <<>>)) < MAX_HIGH_SCORES_PER_CONFIG
                  THEN Len(GetOr(bd, score_config_key, <<>>)) + 1
                  ELSE MAX_HIGH_SCORES_PER_CONFIG))

\* a slip: the new entry is stored in place of the list it was appended to
RecordScore_replace(bd, score_config_key, user_name, time_taken) ==
    Put(bd, score_config_key, <<[name |-> user_name, time |-> time_taken]>>)

\* the "Store high score" block: bot_data after the win is recorded
RecordScore(bd, score_config_key, user_name, time_taken) ==
    LET high_scores_for_config ==
            Append(GetOr(bd, score_config_key, <<>>),
                   [name |-> user_name, time |-> time_taken])
    IN  Put(bd, score_config_key, Truncate(SortByTime(high_scores_for_config)))

\* update.effective_user.first_name of the player who taps
UserNames == {"Sara"}

\* query.data: the buttons of boards up to 3 x 3, and a callback without data
TapData == {CellId(x, y) : x \in 1..3, y \in 1..3} \cup {<<>>}

\* user_data with the played-on board, selection and matched values replaced
WithPlay(ud, board_cells, current_selection, matched_values) ==
    [ud EXCEPT !["board_cells"] = board_cells,
               !["current_selection"] = current_selection,
               !["matched_values"] = matched_values]

\* a slip: the leftovers of the configuration are cleared with the report
ExpiredGame_reset ==
    /\ outcome' = "MissingSession"
    /\ user_data' = EmptyDict
    /\ UNCHANGED bot_data

\* the "game expired" report of button_tap: a message, and nothing stored
ExpiredGame ==
    /\ outcome' = "MissingSession"
    /\ UNCHANGED <<user_data, bot_data>>

button_tap(cell_id) ==
    /\ UNCHANGED <<conv_state, starts, sessions>>
    /\ IF SessionMissing(user_data)
       THEN ExpiredGame
       ELSE IF TapIgnored(user_data["board_cells"], user_data["current_selection"],
                          cell_id)
       THEN /\ outcome' = "Ignored"
            /\ UNCHANGED <<user_data, bot_data>>
       ELSE LET match_count == user_data["match_count"]
                board_cells == Reveal(user_data["board_cells"], cell_id)
                current_selection ==
                    Append(user_data["current_selection"],
                           [id |-> cell_id, value |-> board_cells[cell_id].value])
                matched_values ==
                    AddMatched(user_data["matched_values"], current_selection[1].value)
                game_start_time == user_data["game_start_time"]
                score_config_key ==
                    ScoreConfigKey(user_data["board_size_x"], user_data["board_size_y"],
                                   match_count)
            IN  IF ~SelectionComplete(current_selection, match_count)
                THEN /\ outcome' = "Pending"
                     /\ user_data' = WithPlay(user_data, board_cells, current_selection,
                                              user_data["matched_values"])
                     /\ UNCHANGED bot_data
                ELSE IF ~IsMatch(current_selection)
                THEN /\ outcome' = "Mismatch"
                     /\ user_data' = WithPlay(user_data,
                                              Hide(board_cells, current_selection),
                                              <<>>, user_data["matched_values"])
                     /\ UNCHANGED bot_data
                ELSE /\ user_data' = WithPlay(user_data,
                                              RevealPermanently(board_cells,
                                                                current_selection),
                                              <<>>, matched_values)
                     /\ IF Len(matched_values) = NumUniqueItemTypes(user_data["game_items"])
                        THEN /\ outcome' = "Win"
                             /\ \E user_name \in UserNames,
                                   now \in game_start_time..(game_start_time + MaxElapsed) :
                                   bot_data' = RecordScore(bot_data, score_config_key,
                                                           user_name, now - game_start_time)
                        ELSE /\ outcome' = "MatchProgress"
                             /\ UNCHANGED bot_data

(***************************************************************************)
(* The specification.                                                      *)
(***************************************************************************)
\* a stored score list: [name, time] entries
Score(user_name, time_taken) == [name |-> user_name, time |-> time_taken]

\* bot_data as PicklePersistence restores it at start-up: nothing, or the
\* table earlier runs left for the 2x2 board
PersistedBotData ==
    { EmptyDict,
      Put(Put(EmptyDict, ScoreConfigKey(2, 3, 3), <<Score("Ali", 0)>>),
          ScoreConfigKey(2, 2, 2),
          [i \in 1..(MAX_HIGH_SCORES_PER_CONFIG - 1) |->
              Score("Ali", IF i <= 5 THEN 0 ELSE 1)]),
      Put(EmptyDict, ScoreConfigKey(2, 2, 2),
          [i \in 1..MAX_HIGH_SCORES_PER_CONFIG |->
              Score("Ali", IF i <= 5 THEN 0 ELSE 1)]) }

\* a first run: nothing was persisted
Init ==
    /\ conv_state = END
    /\ user_data = EmptyDict
    /\ bot_data = EmptyDict
    /\ outcome = "None"
    /\ starts = 0
    /\ sessions = EmptyDict

Next ==
    \/ Start
    \/ Cancel
    \/ \E user_input \in DimensionTexts : choose_dimensions(user_input)
    \/ \E user_input \in MatchCountTexts : choose_match_count(user_input)
    \/ \E cell_id \in TapData : button_tap(cell_id)

Spec == Init /\ [][Next]_vars

\* the same with the commands that reach no handler made visible
NextCommands ==
    \/ Next
    \/ CancelNotHandled

SpecCommands == Init /\ [][NextCommands]_vars

\* a later run: PicklePersistence restored the score table of earlier runs
InitScores ==
    /\ conv_state = END
    /\ user_data = EmptyDict
    /\ bot_data \in PersistedBotData
    /\ outcome = "None"
    /\ starts = 0
    /\ sessions = EmptyDict

NextScores ==
    \/ Start
    \/ Cancel
    \/ \E user_input \in ScoreDimensionTexts : choose_dimensions(user_input)
    \/ \E user_input \in MatchCountTexts : choose_match_count(user_input)
    \/ \E cell_id \in TapData : button_tap(cell_id)

SpecScores == InitScores /\ [][NextScores]_vars

(***************************************************************************)
(* Vocabulary of the properties.  A session exists when user_data holds    *)
(* every key button_tap reads; the properties below speak of its board     *)
(* (cells with symbol, revealed, locked), its Selection Buffer, its        *)
(* Matched Set Registry and its (width, height, group_size).               *)
(***************************************************************************)
Playing == \A k \in SessionKeys : k \in DOMAIN user_data

Width == user_data["board_size_x"]
Height == user_data["board_size_y"]
GroupSize == user_data["match_count"]
GroupCount == (Width * Height) \div GroupSize

\* the coordinates of the board, as the buttons name them
Coordinates == {CellId(x, y) : x \in 1..Width, y \in 1..Height}

Locked(ud, c) == ud["board_cells"][c].permanently_revealed
Revealed(ud, c) == ud["board_cells"][c].revealed
Symbol(ud, c) == ud["board_cells"][c].value
Buffer(ud) == ud["current_selection"]
BufferIds(ud) == {Buffer(ud)[i].id : i \in 1..Len(Buffer(ud))}
Registry(ud) == ud["matched_values"]

\* the taps the Selection State Machine ignores
IgnoredTap(ud, c) ==
    \/ c \notin Coordinates
    \/ Locked(ud, c)
    \/ c \in BufferIds(ud)

\* a session whose Selection Buffer the next accepted tap fills
Filling == Playing /\ Len(Buffer(user_data)) + 1 = GroupSize

\* a tap on the cell c of the board is accepted and fills the Selection Buffer
Completes(c) == Filling /\ ~Locked(user_data, c) /\ c \notin BufferIds(user_data)

\* the cells of the selection that a tap on c completes
Selected(c) == BufferIds(user_data) \cup {c}

AllSame(c) == \A a, b \in Selected(c) : Symbol(user_data, a) = Symbol(user_data, b)

Resolutions == {"Mismatch", "MatchProgress", "Win"}

\* C1: in every state between two handlers the Selection Buffer of a session
\* holds fewer than group_size entries (so never more than group_size), and
\* right after a tap that resolved a selection (Match or Mismatch) it is empty.
C1_BufferBelowGroupSize ==
    Playing =>
        /\ Len(Buffer(user_data)) <= GroupSize
        /\ Len(Buffer(user_data)) < GroupSize
        /\ outcome \in Resolutions => Len(Buffer(user_data)) = 0

C1_Witness ==
    /\ Playing
    /\ GroupSize = 3
    /\ Len(Buffer(user_data)) = 2

\* C2: a tap on a coordinate that is off the board, locked or already in the
\* Selection Buffer is reported as ignored and leaves the session and the
\* Score Ledger as they were, so the same tap is ignored again.
C2_IgnoredTapChangesNothing ==
    [][Playing =>
          \/ /\ outcome' = "Ignored"
             /\ user_data' = user_data
             /\ bot_data' = bot_data
          \/ \A c \in TapData : ~(IgnoredTap(user_data, c) /\ button_tap(c))]_vars

C2_Witness ==
    /\ Playing
    /\ outcome = "Ignored"
    /\ Len(Buffer(user_data)) = 1
    /\ \E c \in Coordinates : Locked(user_data, c)

\* C3: when an accepted tap fills the Selection Buffer, the outcome is a Match
\* (MatchProgress or Win) exactly when all selected symbols are the same; on a
\* Match every selected cell is locked and revealed, the symbol is in the
\* Matched Set Registry, the buffer is empty and every other cell is unchanged.
C3_MatchIffAllSame ==
    [][Filling => \A c \in Coordinates :
          (Completes(c) /\ button_tap(c)) =>
              /\ outcome' \in {"MatchProgress", "Win"} <=> AllSame(c)
              /\ AllSame(c) =>
                    /\ \A s \in Selected(c) :
                          Locked(user_data', s) /\ Revealed(user_data', s)
                    /\ \E i \in 1..Len(Registry(user_data')) :
                          Registry(user_data')[i] = Symbol(user_data, c)
                    /\ Buffer(user_data') = <<>>
                    /\ \A o \in Coordinates \ Selected(c) :
                          user_data'["board_cells"][o] = user_data["board_cells"][o]
                    /\ \A s \in Selected(c) :
                          Symbol(user_data', s) = Symbol(user_data, s)]_vars

C3_Witness ==
    /\ Playing
    /\ outcome = "MatchProgress"
    /\ GroupSize = 3
    /\ Cardinality({c \in Coordinates : Locked(user_data, c)}) = 3

\* C4: when an accepted tap fills the Selection Buffer with symbols that are
\* not all the same, the outcome is Mismatch: every selected cell is hidden
\* again, the buffer is empty, and the Matched Set Registry, every locked flag
\* and the Score Ledger are unchanged.
C4_MismatchHidesSelection ==
    [][Filling => \A c \in Coordinates :
          (Completes(c) /\ ~AllSame(c) /\ button_tap(c)) =>
              /\ outcome' = "Mismatch"
              /\ \A s \in Selected(c) : ~Revealed(user_data', s)
              /\ Buffer(user_data') = <<>>
              /\ Registry(user_data') = Registry(user_data)
              /\ \A o \in Coordinates :
                    Locked(user_data', o) = Locked(user_data, o)
              /\ bot_data' = bot_data]_vars

C4_Witness ==
    /\ Playing
    /\ outcome = "Mismatch"
    /\ GroupSize = 3
    /\ \A c \in Coordinates : ~Revealed(user_data, c)

\* C5: a handler reports Win exactly when it is a tap that makes a Match and
\* brings the Matched Set Registry to width*height/group_size symbols; every
\* Match adds one symbol to the registry, a Match that leaves it smaller is
\* MatchProgress, and at a Win every cell of the board is locked.
C5_WinOnLastMatch ==
    [][/\ outcome' = "Win" =>
             /\ Filling
             /\ \E c \in Coordinates : Completes(c) /\ AllSame(c) /\ button_tap(c)
             /\ Len(Registry(user_data')) = GroupCount
             /\ \A o \in Coordinates : Locked(user_data', o)
       /\ Filling => \A c \in Coordinates :
             (Completes(c) /\ AllSame(c) /\ button_tap(c)) =>
                 /\ Len(Registry(user_data')) = Len(Registry(user_data)) + 1
                 /\ Len(Registry(user_data')) = GroupCount => outcome' = "Win"
                 /\ Len(Registry(user_data')) < GroupCount =>
                       outcome' = "MatchProgress"]_vars

C5_Witness ==
    /\ Playing
    /\ outcome = "Win"
    /\ GroupCount = 3
    /\ Len(Registry(user_data)) = 3

\* C6: while a session lasts, the Matched Set Registry never shrinks and
\* never holds more than width*height/group_size symbols, and once it holds
\* that many no handler changes the session any more.
C6_RegistryMonotone ==
    [][(Playing /\ \A k \in SessionKeys : k \in DOMAIN user_data') =>
          /\ Len(Registry(user_data')) >= Len(Registry(user_data))
          /\ Len(Registry(user_data)) <= GroupCount
          /\ Len(Registry(user_data')) <= GroupCount
          /\ Len(Registry(user_data)) = GroupCount => user_data' = user_data]_vars

C6_Witness ==
    /\ Playing
    /\ Len(Registry(user_data)) = GroupCount
    /\ outcome = "Ignored"

\* C7: while a session lasts, a locked cell stays locked and revealed through
\* every handler, a Mismatch included.
C7_LockedStaysLocked ==
    [][(Playing /\ \A k \in SessionKeys : k \in DOMAIN user_data') =>
          \A c \in Coordinates :
              Locked(user_data, c) =>
                  /\ c \in DOMAIN user_data'["board_cells"]
                  /\ Locked(user_data', c)
                  /\ Revealed(user_data', c)]_vars

C7_Witness ==
    /\ Playing
    /\ outcome = "Mismatch"
    /\ \E c \in Coordinates : Locked(user_data, c) /\ Revealed(user_data, c)

\* C8: the list stored under every configuration key is sorted ascending by
\* elapsed time and has at most 10 entries.
C8_LedgerSortedAndBounded ==
    \A k \in DOMAIN bot_data :
        /\ Len(bot_data[k]) <= 10
        /\ \A i, j \in 1..Len(bot_data[k]) :
              i < j => bot_data[k][i].time <= bot_data[k][j].time

\* a win by Sara recorded in a table that was already full
C8_Witness ==
    /\ outcome = "Win"
    /\ \E k \in DOMAIN bot_data :
          /\ Len(bot_data[k]) = 10
          /\ \E i \in 1..9 : bot_data[k][i].name = "Sara"
                             /\ bot_data[k][i + 1].name = "Ali"

\* the list old with entry e put at position p, cut to 10 entries
InsertedAt(old, e, p) ==
    LET all == SubSeq(old, 1, p - 1) \o <<e>> \o SubSeq(old, p, Len(old))
    IN  SubSeq(all, 1, IF Len(all) < 10 THEN Len(all) ELSE 10)

\* C9: a Win is the last Match of its session and records one score: one
\* entry is put into the list of the key of the session's own (width, height,
\* group_size), and every other key keeps its list; a handler with any other
\* outcome leaves the Score Ledger unchanged.
C9_OneRecordPerWin ==
    [][/\ outcome' # "Win" => bot_data' = bot_data
       /\ outcome' = "Win" =>
             /\ Playing
             /\ Len(Registry(user_data)) = GroupCount - 1
             /\ Len(Registry(user_data')) = GroupCount
             /\ LET key == ScoreConfigKey(Width, Height, GroupSize)
                    old == IF key \in DOMAIN bot_data THEN bot_data[key] ELSE <<>>
                IN  /\ DOMAIN bot_data' = DOMAIN bot_data \cup {key}
                    /\ \A k \in DOMAIN bot_data : k # key => bot_data'[k] = bot_data[k]
                    /\ \E p \in 1..(Len(old) + 1), n \in UserNames, t \in 0..MaxElapsed :
                          bot_data'[key] = InsertedAt(old, [name |-> n, time |-> t], p)]_vars

C9_Witness ==
    /\ Playing
    /\ outcome = "Win"
    /\ DOMAIN bot_data = {<<"2", "x", "2", "_", "m", "a", "t", "c", "h", "2">>,
                          <<"2", "x", "3", "_", "m", "a", "t", "c", "h", "3">>}
    /\ Len(bot_data[<<"2", "x", "3", "_", "m", "a", "t", "c", "h", "3">>]) = 1
    /\ Len(bot_data[<<"2", "x", "2", "_", "m", "a", "t", "c", "h", "2">>]) = 10


(***************************************************************************)
(* The board generator on its own: get_initial_board_state applied to      *)
(* every configuration of a bounded set, the rejected ones included.       *)
(***************************************************************************)
\* boards of at most this many cells are generated
MaxGenCells == 8

\* (width, height, group_size): every small configuration, and two whose
\* number of groups exceeds the pool
GenConfigs ==
    {cfg \in (1..MaxGenCells) \X (1..MaxGenCells) \X (2..(MaxGenCells + 1)) :
        cfg[1] * cfg[2] <= MaxGenCells}
    \cup {<<10, 8, 2>>, <<37, 2, 2>>}

InitGen ==
    /\ conv_state = CHOOSE_MATCH_COUNT
    /\ \E cfg \in GenConfigs :
          user_data = Put(Put(Put(EmptyDict, "board_size_x", cfg[1]),
                              "board_size_y", cfg[2]), "match_count", cfg[3])
    /\ bot_data = EmptyDict
    /\ outcome = "None"
    /\ starts = 0
    /\ sessions = EmptyDict

\* "initial_board_cells = get_initial_board_state(context)" and the store of
\* its result, without the checks choose_match_count makes before it
Generate ==
    /\ outcome = "None"
    /\ UNCHANGED <<conv_state, bot_data, starts, sessions>>
    /\ IF get_initial_board_state(user_data) = {}
       THEN /\ outcome' = "BoardFailed"
            /\ UNCHANGED user_data
       ELSE \E b \in get_initial_board_state(user_data) :
               /\ user_data' = Put(Put(user_data, "game_items", b.game_items),
                                   "board_cells", b.board_cells)
               /\ outcome' = "Generated"

NextGen == Generate

SpecGen == InitGen /\ [][NextGen]_vars

\* divisible, at least 2 groups, no more groups than the pool holds
ValidConfiguration ==
    /\ (Width * Height) % GroupSize = 0
    /\ GroupCount >= 2
    /\ GroupCount <= PoolSize

\* C10: for a configuration (width, height >= 1, group_size >= 2) that is
\* divisible, has at least 2 groups and no more groups than the pool, the
\* generated board has exactly width*height cells, one per coordinate, each
\* of the first group_count pool symbols on exactly group_size cells, no other
\* symbol, every cell hidden and unlocked; for any other configuration the
\* generator fails and there is no board.
C10_GeneratorContract ==
    /\ outcome = "Generated" =>
          /\ ValidConfiguration
          /\ "board_cells" \in DOMAIN user_data
          /\ DOMAIN user_data["board_cells"] = Coordinates
          /\ Cardinality(Coordinates) = Width * Height
          /\ \A i \in 1..PoolSize :
                Cardinality({c \in Coordinates : Symbol(user_data, c) = EMOJI_POOL[i]})
                    = IF i <= GroupCount THEN GroupSize ELSE 0
          /\ \A c \in Coordinates :
                /\ \E i \in 1..GroupCount : Symbol(user_data, c) = EMOJI_POOL[i]
                /\ ~Revealed(user_data, c)
                /\ ~Locked(user_data, c)
    /\ outcome = "BoardFailed" =>
          /\ ~ValidConfiguration
          /\ "board_cells" \notin DOMAIN user_data
    /\ outcome = "None" => "board_cells" \notin DOMAIN user_data

C10_Witness ==
    /\ outcome = "Generated"
    /\ Width = 2
    /\ Height = 4
    /\ GroupSize = 2
    /\ Symbol(user_data, CellId(1, 1)) = EMOJI_POOL[4]

(***************************************************************************)
(* The configuration dialogue.                                             *)
(***************************************************************************)
\* ud holds a complete session
SessionIn(ud) == \A k \in SessionKeys : k \in DOMAIN ud

\* ud holds a board that was just laid out: one hidden, unlocked cell per
\* coordinate of its dimensions
FreshBoard(ud) ==
    /\ DOMAIN ud["board_cells"] =
          {CellId(x, y) : x \in 1..ud["board_size_x"], y \in 1..ud["board_size_y"]}
    /\ \A c \in DOMAIN ud["board_cells"] : ~Revealed(ud, c) /\ ~Locked(ud, c)

\* the group sizes the spec accepts for a board of total_cells cells
GroupSizeAccepted(total_cells, g) ==
    /\ 1 < g
    /\ g <= total_cells
    /\ total_cells % g = 0
    /\ total_cells \div g > 1
    /\ total_cells \div g <= PoolSize

\* C11: while the group size is awaited, a text is accepted exactly when it
\* is an integer g with 1 < g <= total_cells, total_cells divisible by g, more
\* than one group and no more groups than the pool; acceptance ends the
\* dialogue with a session of the stored dimensions and g, an empty Selection
\* Buffer, an empty Matched Set Registry and a fresh board; every rejection
\* keeps the dialogue awaiting the group size with user_data unchanged and no
\* session.
C11_GroupSizeAcceptedIffValid ==
    [][(conv_state = CHOOSE_MATCH_COUNT /\ Has(user_data, "board_size_x")
                                        /\ Has(user_data, "board_size_y")) =>
          \A t \in MatchCountTexts :
              \/ IF IntOf(t).ok /\ GroupSizeAccepted(Width * Height, IntOf(t).val)
                 THEN /\ conv_state' = END
                      /\ SessionIn(user_data')
                      /\ user_data'["board_size_x"] = Width
                      /\ user_data'["board_size_y"] = Height
                      /\ user_data'["match_count"] = IntOf(t).val
                      /\ Buffer(user_data') = <<>>
                      /\ Registry(user_data') = <<>>
                      /\ FreshBoard(user_data')
                 ELSE /\ conv_state' = CHOOSE_MATCH_COUNT
                      /\ user_data' = user_data
                      /\ ~SessionIn(user_data')
              \/ ~choose_match_count(t)]_vars

C11_Witness ==
    /\ conv_state = CHOOSE_MATCH_COUNT
    /\ outcome = "NotDivisible"
    /\ Has(user_data, "board_size_x")
    /\ ~Playing

\* the dimension texts the spec accepts: digits, a separator, digits, with
\* 1 <= width <= 8, 1 <= height <= 9, 2 <= width*height <= pool size * 10
DimensionsAccepted(t, w, h) ==
    \E i \in 1..Len(t) :
        /\ t[i] \in Separators
        /\ AllDigits(SubSeq(t, 1, i - 1))
        /\ AllDigits(SubSeq(t, i + 1, Len(t)))
        /\ w = ParseDigits(SubSeq(t, 1, i - 1))
        /\ h = ParseDigits(SubSeq(t, i + 1, Len(t)))
        /\ 1 <= w /\ w <= 8
        /\ 1 <= h /\ h <= 9
        /\ w * h >= 2
        /\ w * h <= PoolSize * 10

\* C12: while the dimensions are awaited, a text is accepted exactly when it
\* reads <digits><separator><digits> with 1 <= width <= 8, 1 <= height <= 9 and
\* 2 <= width*height <= pool size * 10; acceptance stores the two dimensions
\* and awaits the group size; every rejection keeps the dialogue awaiting the
\* dimensions and stores no dimension.
C12_DimensionsAcceptedIffValid ==
    [][conv_state = CHOOSE_DIMENSIONS =>
          \A t \in DimensionTexts :
              choose_dimensions(t) =>
                  IF \E w \in 1..8, h \in 1..9 : DimensionsAccepted(t, w, h)
                  THEN /\ conv_state' = CHOOSE_MATCH_COUNT
                       /\ Has(user_data', "board_size_x")
                       /\ Has(user_data', "board_size_y")
                       /\ DimensionsAccepted(t, user_data'["board_size_x"],
                                                user_data'["board_size_y"])
                  ELSE /\ conv_state' = CHOOSE_DIMENSIONS
                       /\ user_data' = user_data
                       /\ ~Has(user_data', "board_size_x")
                       /\ ~Has(user_data', "board_size_y")]_vars

C12_Witness ==
    /\ conv_state = CHOOSE_MATCH_COUNT
    /\ outcome = "DimensionsChosen"
    /\ Has(user_data, "board_size_x") /\ Has(user_data, "board_size_y")
    /\ user_data["board_size_x"] = 1
    /\ user_data["board_size_y"] = 2

\* C13: the checks of choose_match_count pass only configurations the board
\* generator accepts: when they pass, the configuration is divisible, has
\* more than one group and no more groups than the pool, and the generator
\* returns a board; a configuration with more groups than the pool is
\* rejected by the checks.
C13_ValidatedConfigurationsGenerate ==
    outcome # "None" =>
        /\ MatchCountVerdict(Width * Height, GroupSize) = "ok" =>
              /\ ValidConfiguration
              /\ outcome = "Generated"
        /\ GroupCount > PoolSize =>
              MatchCountVerdict(Width * Height, GroupSize) # "ok"

C13_Witness ==
    /\ outcome = "BoardFailed"
    /\ (Width * Height) % GroupSize = 0
    /\ GroupCount > PoolSize
    /\ MatchCountVerdict(Width * Height, GroupSize) = "NotEnoughEmojis"

\* what a handled or unhandled /start or /cancel leaves in outcome
CommandOutcomes == {"Welcome", "Cancelled", "CancelNotHandled"}

\* C14: whenever /start or /cancel is issued, in the dialogue or during play,
\* no session data remain afterwards (no board, Selection Buffer, Matched Set
\* Registry or configuration), the Score Ledger is unchanged, and a tap that
\* follows reports MissingSession.
C14_RestartOrCancelDestroysSession ==
    [][/\ outcome' \in CommandOutcomes =>
             /\ \A k \in SessionKeys : k \notin DOMAIN user_data'
             /\ bot_data' = bot_data
       /\ outcome \in CommandOutcomes =>
             \A c \in TapData : button_tap(c) => outcome' = "MissingSession"]_vars

\* C15: a tap that arrives while user_data holds no complete session (before
\* the configuration is complete, or after /start or /cancel cleared it) is
\* reported as the expired game and changes nothing: user_data, the Score
\* Ledger and the dialogue state stay as they were.
C15_TapWithoutSessionChangesNothing ==
    [][~Playing =>
          \A c \in TapData :
              button_tap(c) =>
                  /\ outcome' = "MissingSession"
                  /\ user_data' = user_data
                  /\ bot_data' = bot_data
                  /\ conv_state' = conv_state]_vars

C15_Witness ==
    /\ outcome = "MissingSession"
    /\ conv_state = CHOOSE_MATCH_COUNT
    /\ Has(user_data, "board_size_x")
    /\ ~Playing

(***************************************************************************)
(* The board and the selection during play.                                *)
(***************************************************************************)
\* the text generate_keyboard puts on the button of cell c
ButtonText(ud, c) ==
    IF ud["board_cells"][c].revealed \/ ud["board_cells"][c].permanently_revealed
    THEN ud["board_cells"][c].value
    ELSE Placeholder

\* C16: between handlers a cell of a session is revealed exactly when it is
\* locked or its coordinate is in the Selection Buffer, so its button shows
\* the symbol for exactly those cells and the placeholder for every other.
C16_RevealedIffLockedOrSelected ==
    Playing =>
        \A c \in Coordinates :
            /\ Revealed(user_data, c) <=>
                   (Locked(user_data, c) \/ c \in BufferIds(user_data))
            /\ ButtonText(user_data, c) =
                   IF Locked(user_data, c) \/ c \in BufferIds(user_data)
                   THEN Symbol(user_data, c)
                   ELSE Placeholder

C16_Witness ==
    /\ Playing
    /\ GroupSize = 3
    /\ Len(Buffer(user_data)) = 2
    /\ Len(Registry(user_data)) = 1
    /\ Cardinality({c \in Coordinates : Revealed(user_data, c)}) = 5

\* C17: in every state of a session no coordinate is twice in the Selection
\* Buffer, no buffered cell is locked, and every buffered entry carries the
\* symbol of the board cell at its coordinate.
C17_BufferEntriesDistinctUnlocked ==
    Playing =>
        /\ \A i, j \in 1..Len(Buffer(user_data)) :
              i # j => Buffer(user_data)[i].id # Buffer(user_data)[j].id
        /\ \A i \in 1..Len(Buffer(user_data)) :
              /\ Buffer(user_data)[i].id \in Coordinates
              /\ ~Locked(user_data, Buffer(user_data)[i].id)
              /\ Buffer(user_data)[i].value =
                     Symbol(user_data, Buffer(user_data)[i].id)

C17_Witness ==
    /\ Playing
    /\ GroupSize = 3
    /\ Len(Buffer(user_data)) = 2
    /\ Buffer(user_data)[1].value # Buffer(user_data)[2].value
    /\ outcome = "Pending"

\* the symbols on the board of ud
SymbolsOf(ud) == {ud["board_cells"][c].value : c \in DOMAIN ud["board_cells"]}

\* exactly match_count cells share each symbol, and the number of distinct
\* symbols is width * height / match_count
Balanced(ud) ==
    /\ \A v \in SymbolsOf(ud) :
          Cardinality({c \in DOMAIN ud["board_cells"] :
                          ud["board_cells"][c].value = v}) = ud["match_count"]
    /\ Cardinality(SymbolsOf(ud)) =
          (ud["board_size_x"] * ud["board_size_y"]) \div ud["match_count"]

\* C18: a handler that leaves the session in place changes neither width,
\* height, group_size nor the symbol of any cell, and in every state a
\* handler leaves a session in, exactly group_size cells share each symbol
\* and there are width*height/group_size distinct symbols.
C18_ConfigurationAndSymbolsFixed ==
    [][/\ SessionIn(user_data') => Balanced(user_data')
       /\ (Playing /\ SessionIn(user_data')) =>
             /\ user_data'["board_size_x"] = Width
             /\ user_data'["board_size_y"] = Height
             /\ user_data'["match_count"] = GroupSize
             /\ DOMAIN user_data'["board_cells"] = Coordinates
             /\ \A c \in Coordinates :
                   Symbol(user_data', c) = Symbol(user_data, c)]_vars

C18_Witness ==
    /\ Playing
    /\ outcome = "Mismatch"
    /\ GroupSize = 2
    /\ Balanced(user_data)
    /\ Len(Registry(user_data)) = 1

(***************************************************************************)
(* The order of the score table.                                           *)
(***************************************************************************)
\* the place of a new entry of time t in the stable ascending order of the
\* sorted list old followed by the new entry: behind every entry of time <= t
StablePlace(old, t) == 1 + Cardinality({i \in 1..Len(old) : old[i].time <= t})

\* C19: a record leaves under its key the first 10 entries of the stable
\* ascending order of the stored list followed by the new entry: the new
\* entry stands behind the stored entries of equal or smaller time, an entry
\* that ties with the 10th of a full list is the one dropped, and no entry
\* is dropped while an entry of strictly larger time is kept.
C19_StableTopTen ==
    [][outcome' = "Win" =>
          /\ Playing
          /\ LET key == ScoreConfigKey(Width, Height, GroupSize)
                 old == IF key \in DOMAIN bot_data THEN bot_data[key] ELSE <<>>
                 new == bot_data'[key]
             IN  \E n \in UserNames, t \in 0..MaxElapsed :
                    /\ new = InsertedAt(old, [name |-> n, time |-> t],
                                        StablePlace(old, t))
                    /\ (Len(old) = 10 /\ old[10].time <= t) => new = old
                    /\ Len(old) = 10 =>
                          \A i \in 1..Len(new) :
                              new[i].time <= (IF new = old THEN t ELSE old[10].time)]_vars

C19_Witness ==
    /\ Playing
    /\ outcome = "Win"
    /\ \E k \in DOMAIN bot_data :
          /\ Len(bot_data[k]) = 10
          /\ bot_data[k][5].name = "Ali" /\ bot_data[k][5].time = 0
          /\ bot_data[k][6].name = "Sara" /\ bot_data[k][6].time = 0
          /\ bot_data[k][7].time = 1

(***************************************************************************)
(* Two players tapping at the same time.  A button_tap coroutine gives up  *)
(* control at its awaits only: at "await query.answer()" before it reads   *)
(* user_data, and at the awaits that send the reply after it has written   *)
(* user_data and bot_data.  The code between two awaits runs as one step;  *)
(* the steps of the two players' coroutines interleave in every order.     *)
(***************************************************************************)
Players == {"Sara", "Mina"}

\* button_tap from its first read of user_data to its last write, as a
\* function: the user_data and bot_data it leaves and what it reports
TapResult(ud, bd, cell_id, user_name, now) ==
    IF SessionMissing(ud)
    THEN [user_data |-> ud, bot_data |-> bd, outcome |-> "MissingSession"]
    ELSE IF TapIgnored(ud["board_cells"], ud["current_selection"], cell_id)
    THEN [user_data |-> ud, bot_data |-> bd, outcome |-> "Ignored"]
    ELSE LET match_count == ud["match_count"]
             board_cells == Reveal(ud["board_cells"], cell_id)
             current_selection ==
                 Append(ud["current_selection"],
                        [id |-> cell_id, value |-> board_cells[cell_id].value])
             matched_values ==
                 AddMatched(ud["matched_values"], current_selection[1].value)
             score_config_key ==
                 ScoreConfigKey(ud["board_size_x"], ud["board_size_y"], match_count)
         IN  IF ~SelectionComplete(current_selection, match_count)
             THEN [user_data |-> WithPlay(ud, board_cells, current_selection,
                                          ud["matched_values"]),
                   bot_data |-> bd, outcome |-> "Pending"]
             ELSE IF ~IsMatch(current_selection)
             THEN [user_data |-> WithPlay(ud, Hide(board_cells, current_selection),
                                          <<>>, ud["matched_values"]),
                   bot_data |-> bd, outcome |-> "Mismatch"]
             ELSE IF Len(matched_values) = NumUniqueItemTypes(ud["game_items"])
             THEN [user_data |-> WithPlay(ud, RevealPermanently(board_cells,
                                                                current_selection),
                                          <<>>, matched_values),
                   bot_data |-> RecordScore(bd, score_config_key, user_name,
                                            now - ud["game_start_time"]),
                   outcome |-> "Win"]
             ELSE [user_data |-> WithPlay(ud, RevealPermanently(board_cells,
                                                                current_selection),
                                          <<>>, matched_values),
                   bot_data |-> bd, outcome |-> "MatchProgress"]

\* user_data of a 2 x 2 game of pairs in which the pair of the first pool
\* symbol has been found and no cell is selected
MidGame(items) ==
    LET fresh == BoardOf(items, 2, 2)
        board_cells ==
            [id \in DOMAIN fresh |->
                IF fresh[id].value = EMOJI_POOL[1]
                THEN [fresh[id] EXCEPT !.revealed = TRUE, !.permanently_revealed = TRUE]
                ELSE fresh[id]]
    IN  Put(Put(Put(Put(Put(Put(Put(Put(EmptyDict,
            "board_size_x", 2), "board_size_y", 2), "match_count", 2),
            "game_items", items), "board_cells", board_cells),
            "current_selection", <<>>), "matched_values", <<EMOJI_POOL[1]>>),
            "game_start_time", 1)

\* the shuffled items of the two players' boards: the layouts whose first
\* row shows both symbols
RaceItems ==
    {items \in generate_dynamic_items(2, 2, 2) :
        items[1] = EMOJI_POOL[1] /\ items[2] = EMOJI_POOL[2]}

\* query.data of the taps: the buttons of the 2 x 2 board
RaceTapData == {CellId(x, y) : x \in 1..2, y \in 1..2}

InitRace ==
    /\ conv_state = END
    /\ user_data = EmptyDict
    /\ bot_data \in PersistedBotData
    /\ outcome = "None"
    /\ starts = 0
    /\ \E boards \in [Players -> RaceItems] :
          sessions = [u \in Players |->
                         [user_data |-> MidGame(boards[u]), pc |-> "idle",
                          cell_id |-> <<>>, outcome |-> "None", time_taken |-> 0]]

\* the dispatcher starts button_tap for a tap of player u; the coroutine
\* runs up to "await query.answer()"
TapReceived(u, cell_id) ==
    /\ sessions[u].pc = "idle"
    /\ sessions' = [sessions EXCEPT ![u].pc = "answer", ![u].cell_id = cell_id]
    /\ UNCHANGED <<conv_state, user_data, bot_data, outcome, starts>>

\* the coroutine of player u resumes and runs, without an await, from its
\* reads of user_data to the await that sends the reply
TapHandled(u) ==
    /\ sessions[u].pc = "answer"
    /\ \E now \in sessions[u].user_data["game_start_time"] ..
                   (sessions[u].user_data["game_start_time"] + MaxElapsed) :
          LET r == TapResult(sessions[u].user_data, bot_data, sessions[u].cell_id,
                             u, now)
          IN  /\ sessions' =
                    [sessions EXCEPT
                        ![u].user_data = r.user_data,
                        ![u].pc = "reply",
                        ![u].outcome = r.outcome,
                        ![u].time_taken =
                            IF r.outcome = "Win"
                            THEN now - sessions[u].user_data["game_start_time"]
                            ELSE @]
              /\ bot_data' = r.bot_data
    /\ UNCHANGED <<conv_state, user_data, outcome, starts>>

\* the reply of player u's coroutine is sent and the coroutine ends
TapReplied(u) ==
    /\ sessions[u].pc = "reply"
    /\ sessions' = [sessions EXCEPT ![u].pc = "idle"]
    /\ UNCHANGED <<conv_state, user_data, bot_data, outcome, starts>>

NextRace ==
    \/ \E u \in Players, cell_id \in RaceTapData : TapReceived(u, cell_id)
    \/ \E u \in Players : TapHandled(u)
    \/ \E u \in Players : TapReplied(u)

SpecRace == InitRace /\ [][NextRace]_vars

\* player u has won: every symbol of u's board is in u's matched_values
Won(u) ==
    Len(sessions[u].user_data["matched_values"]) =
        NumUniqueItemTypes(sessions[u].user_data["game_items"])

\* the list stored for the configuration both players play
RaceScores == GetOr(bot_data, ScoreConfigKey(2, 2, 2), <<>>)

\* C20: however the steps of the two players' tap handlers interleave, the
\* list of their common configuration key stays sorted with at most 10
\* entries, and the score of every player who has won is in it, unless the
\* list is full of entries that are no slower: no record is lost to the
\* other player's record.
C20_NoLostScore ==
    /\ Len(RaceScores) <= 10
    /\ \A i \in 1..(Len(RaceScores) - 1) :
          RaceScores[i].time <= RaceScores[i + 1].time
    /\ \A u \in Players :
          Won(u) =>
              \/ \E i \in 1..Len(RaceScores) :
                    RaceScores[i] = [name |-> u, time |-> sessions[u].time_taken]
              \/ /\ Len(RaceScores) = 10
                 /\ RaceScores[10].time <= sessions[u].time_taken

C20_Witness ==
    /\ \A u \in Players :
          /\ Won(u)
          /\ sessions[u].outcome = "Win"
          /\ sessions[u].pc = "reply"
          /\ \E i \in 1..Len(RaceScores) : RaceScores[i].name = u
    /\ Len(RaceScores) = 2

(***************************************************************************)
(* Two taps of one player in flight at the same time: two button_tap       *)
(* coroutines on the same user_data, cut at their awaits.                  *)
(***************************************************************************)
Coroutines == {1, 2}

\* a slip: the session is copied out of user_data before "await
\* query.answer()" and the handler works on that copy
SessionRead_early(received, resumed) == received

\* the session button_tap works on: what the user_data.get calls return,
\* which run after "await query.answer()" has resumed
SessionRead(received, resumed) == resumed

\* user_data of a 2 x 2 game of pairs right after choose_match_count
FreshGame(items) ==
    Put(Put(Put(Put(Put(Put(Put(Put(EmptyDict,
        "board_size_x", 2), "board_size_y", 2), "match_count", 2),
        "game_items", items), "board_cells", BoardOf(items, 2, 2)),
        "current_selection", <<>>), "matched_values", <<>>),
        "game_start_time", 1)

\* the sessions the two taps arrive at: a new game, a game with one cell
\* selected, a game with one pair found
SameStarts ==
    UNION {{FreshGame(items),
            TapResult(FreshGame(items), EmptyDict, CellId(1, 1), "Sara", 1).user_data,
            MidGame(items)} : items \in RaceItems}

InitSame ==
    /\ conv_state = END
    /\ user_data \in SameStarts
    /\ bot_data = EmptyDict
    /\ outcome = "GameStarted"
    /\ starts = 1
    /\ sessions = [k \in Coroutines |->
                      [began |-> user_data, user_data |-> user_data, pc |-> "idle",
                       cell_id |-> <<>>, outcome |-> "None"]]

\* the dispatcher starts button_tap for a tap; the coroutine runs up to
\* "await query.answer()"
SameTapReceived(k, cell_id) ==
    /\ sessions[k].pc = "idle"
    /\ sessions' = [sessions EXCEPT ![k].pc = "answer", ![k].cell_id = cell_id,
                                    ![k].user_data = user_data]
    /\ UNCHANGED <<conv_state, user_data, bot_data, outcome, starts>>

\* the coroutine resumes and runs, without an await, from its reads of
\* user_data to the await that sends the reply
SameTapHandled(k) ==
    /\ sessions[k].pc = "answer"
    /\ \E now \in user_data["game_start_time"] ..
                   (user_data["game_start_time"] + MaxElapsed) :
          LET r == TapResult(SessionRead(sessions[k].user_data, user_data), bot_data,
                             sessions[k].cell_id, "Sara", now)
          IN  /\ user_data' = r.user_data
              /\ bot_data' = r.bot_data
              /\ outcome' = r.outcome
              /\ sessions' = [sessions EXCEPT ![k].pc = "reply",
                                              ![k].outcome = r.outcome]
    /\ UNCHANGED <<conv_state, starts>>

\* the reply is sent and the coroutine ends
SameTapReplied(k) ==
    /\ sessions[k].pc = "reply"
    /\ sessions' = [sessions EXCEPT ![k].pc = "done"]
    /\ UNCHANGED <<conv_state, user_data, bot_data, outcome, starts>>

NextSame ==
    \/ \E k \in Coroutines, cell_id \in RaceTapData : SameTapReceived(k, cell_id)
    \/ \E k \in Coroutines : SameTapHandled(k)
    \/ \E k \in Coroutines : SameTapReplied(k)

SpecSame == InitSame /\ [][NextSame]_vars

\* the session after a tap on first and then a tap on second, one handler
\* after the other, from the session ud
OneAfterTheOther(ud, first, second) ==
    TapResult(TapResult(ud, EmptyDict, first, "Sara", 1).user_data,
              EmptyDict, second, "Sara", 1).user_data

\* C21: however the steps of two tap handlers on one session interleave,
\* the Selection Buffer never reaches beyond group_size, at most one score is
\* recorded, and once both handlers have done their work the session is the
\* one that the two taps leave when handled one after the other in one of
\* the two orders.
C21_SameSessionTapsSerialize ==
    /\ Len(user_data["current_selection"]) <= user_data["match_count"]
    /\ \A key \in DOMAIN bot_data : Len(bot_data[key]) <= 1
    /\ (\A k \in Coroutines : sessions[k].pc \in {"reply", "done"}) =>
          \/ user_data = OneAfterTheOther(sessions[1].began, sessions[1].cell_id,
                                          sessions[2].cell_id)
          \/ user_data = OneAfterTheOther(sessions[1].began, sessions[2].cell_id,
                                          sessions[1].cell_id)

C21_Witness ==
    /\ sessions[1].pc = "reply"
    /\ sessions[2].pc = "reply"
    /\ sessions[1].outcome = "Pending"
    /\ sessions[2].outcome = "Mismatch"
    /\ sessions[1].user_data = sessions[2].user_data

\* the symbols of the Matched Set Registry and the locked cells of a session
RegistrySet(ud) == {Registry(ud)[i] : i \in 1..Len(Registry(ud))}
LockedCells(ud) == {c \in DOMAIN ud["board_cells"] : Locked(ud, c)}

\* C22: in every session state a cell is locked exactly when its symbol is in
\* the Matched Set Registry, the number of locked cells is group_size times
\* the length of the registry, and a tap that would resolve a Match never
\* finds the matched symbol in the registry already.
C22_LockedIffSymbolRegistered ==
    Playing =>
        /\ \A c \in DOMAIN user_data["board_cells"] :
              Locked(user_data, c) <=> Symbol(user_data, c) \in RegistrySet(user_data)
        /\ Cardinality(LockedCells(user_data)) = GroupSize * Len(Registry(user_data))
        /\ Filling =>
              \A c \in DOMAIN user_data["board_cells"] :
                  (Completes(c) /\ AllSame(c)) =>
                      Symbol(user_data, c) \notin RegistrySet(user_data)

C22_Witness ==
    /\ Playing
    /\ Len(Registry(user_data)) = 1
    /\ Filling
    /\ \E c \in DOMAIN user_data["board_cells"] : Completes(c) /\ AllSame(c)

(***************************************************************************)
(* A board that has expired: the chat still shows the message of a game    *)
(* that /start has discarded, and its buttons still send their cell ids.   *)
(***************************************************************************)
\* the callback data of the buttons of the expired board, a 2 x 2 game
ExpiredButtons == {CellId(x, y) : x \in 1..2, y \in 1..2}

\* the process starts with the 2 x 2 game that persistence has kept
InitExpired ==
    /\ conv_state = END
    /\ user_data \in {FreshGame(items) : items \in RaceItems}
    /\ bot_data = EmptyDict
    /\ outcome = "GameStarted"
    /\ starts = 0
    /\ sessions = EmptyDict

\* a button of the expired board is tapped after /start and a new
\* negotiation have made a new session: button_tap gets its cell id
ExpiredTap(cell_id) ==
    /\ starts >= 1
    /\ Playing
    /\ cell_id \in ExpiredButtons
    /\ button_tap(cell_id)

NextExpired ==
    \/ Next
    \/ \E cell_id \in ExpiredButtons : ExpiredTap(cell_id)

SpecExpired == InitExpired /\ [][NextExpired]_vars

\* C23: a tap that comes from an expired board, the board of a session that
\* /start and a new negotiation have replaced, never changes the board cells,
\* the Selection Buffer or the Matched Set Registry of the current session.
C23_ExpiredTapAbsorbed ==
    [][\A cell_id \in ExpiredButtons :
          ExpiredTap(cell_id) =>
              /\ user_data'["board_cells"] = user_data["board_cells"]
              /\ user_data'["current_selection"] = user_data["current_selection"]
              /\ user_data'["matched_values"] = user_data["matched_values"]]_vars

(***************************************************************************)
(* Progress of a game: the taps a player can still make.                   *)
(***************************************************************************)
\* the cells of a session whose tap button_tap does not ignore
AcceptedTaps(ud) ==
    {c \in DOMAIN ud["board_cells"] :
        TapResult(ud, EmptyDict, c, "Sara", ud["game_start_time"]).outcome # "Ignored"}

\* the tap of a player who goes for the win: a cell with the symbol of the
\* cells selected so far when there is one, any accepted cell otherwise
WinningTap(ud) ==
    LET same == {c \in AcceptedTaps(ud) :
                    \A i \in 1..Len(Buffer(ud)) : Buffer(ud)[i].value = Symbol(ud, c)}
    IN  IF same # {} THEN CHOOSE c \in same : TRUE
        ELSE CHOOSE c \in AcceptedTaps(ud) : TRUE

\* button_tap reports Win within the given number of taps of that player
RECURSIVE WinsWithin(_, _)
WinsWithin(ud, taps) ==
    /\ taps > 0
    /\ AcceptedTaps(ud) # {}
    /\ LET r == TapResult(ud, EmptyDict, WinningTap(ud), "Sara", ud["game_start_time"])
       IN  r.outcome = "Win" \/ WinsWithin(r.user_data, taps - 1)

Unfinished == Playing /\ \E c \in DOMAIN user_data["board_cells"] : ~Locked(user_data, c)

\* C24: in every session state where some symbol is still unmatched there is
\* a cell whose tap is accepted, and a finite sequence of taps from that
\* state (at most one tap per cell after the taps that empty the Selection
\* Buffer) ends in Win.
C24_NeverStuckBeforeWin ==
    Unfinished =>
        /\ AcceptedTaps(user_data) # {}
        /\ WinsWithin(user_data, Width * Height + GroupSize)

C24_Witness ==
    /\ Unfinished
    /\ Len(Buffer(user_data)) = 2
    /\ Buffer(user_data)[1].value # Buffer(user_data)[2].value

\* C25: whenever the dimensions have been accepted and the group size is
\* awaited, some group size is accepted: there is an integer text for which
\* choose_match_count passes every check and deals a board, so the dialogue
\* can end in a session without a restart.
C25_NegotiationCanComplete ==
    (conv_state = CHOOSE_MATCH_COUNT /\ Has(user_data, "board_size_x")
                                     /\ Has(user_data, "board_size_y")) =>
        \E g \in 1..(Width * Height) :
            /\ IntOf(Str(g)).ok
            /\ MatchCountVerdict(Width * Height, IntOf(Str(g)).val) = "ok"
            /\ get_initial_board_state(Put(user_data, "match_count",
                                           IntOf(Str(g)).val)) # {}

====
